---------------------------- MODULE Spec2Model ----------------------------
(***************************************************************************)
(* Model of the item read API of src/main.go: the /items handler, the      *)
(* identifier parser, the two query strategies (BatchGetItem and Scan) and *)
(* the attribute-value normaliser.                                         *)
(*                                                                         *)
(* Go strings that the program takes apart (the itemIds parameter, the     *)
(* identifiers, the filter expression) are sequences of one-character      *)
(* strings; strings the program only passes around (header names, bodies,  *)
(* attribute names) are TLA+ strings.                                      *)
(***************************************************************************)
EXTENDS Naturals, Sequences, FiniteSets, TLC

VARIABLES
    storeID,    \* main.go:49   STORE_ID, read once at start-up
    err,        \* main.go:54   the err variable of main, captured by the /items closure
    pc,         \* per request: position of its handler goroutine
    req,        \* per request: method and query of the request
    ids,        \* per request: main.go:91 ids
    parses,     \* per request: number of parseItemIDs calls made
    calls,      \* per request: the store calls issued, in order
    ctx,        \* per request: main.go:100 state of the derived context
    elapsed,    \* per request: seconds since context.WithTimeout
    ret,        \* per request: what its own store call returned
    items,      \* per request: main.go:105 the local items
    resp,       \* per request: what was written to the ResponseWriter
    health,     \* the last /health request and what its handler did
    arg,        \* input of the function under test (function specifications)
    result      \* its result

handlerVars == <<storeID, err, pc, req, ids, parses, calls, ctx, elapsed, ret, items, resp, health>>
fnVars == <<arg, result>>
vars == <<storeID, err, pc, req, ids, parses, calls, ctx, elapsed, ret, items, resp, health, arg, result>>

-----------------------------------------------------------------------------
(* Bounds *)

MaxLen == 5          \* longest raw itemIds string given to parseItemIDs
MaxBlankLen == 2     \* longest blank itemIds string sent to the handler

-----------------------------------------------------------------------------
(* Strings *)

Space == {" ", "\t"}
Comma == ","
Chars == {"1", "2", " ", "\t", ","}

RECURSIVE Strs(_, _)
Strs(alphabet, n) ==
    IF n = 0 THEN {<<>>}
    ELSE LET shorter == Strs(alphabet, n - 1)
         IN  shorter \cup {Append(s, c) : s \in {t \in shorter : Len(t) = n - 1}, c \in alphabet}

\* strings.TrimSpace: drop leading and trailing white space
RECURSIVE TrimLeft(_)
TrimLeft(s) == IF s # <<>> /\ Head(s) \in Space THEN TrimLeft(Tail(s)) ELSE s

RECURSIVE TrimRight(_)
TrimRight(s) ==
    IF s # <<>> /\ s[Len(s)] \in Space THEN TrimRight(SubSeq(s, 1, Len(s) - 1)) ELSE s

TrimSpace(s) == TrimRight(TrimLeft(s))

\* strings.Split(s, ","): the segments between the commas, Count(",")+1 of them
RECURSIVE SplitAcc(_, _, _)
SplitAcc(s, cur, acc) ==
    IF s = <<>> THEN Append(acc, cur)
    ELSE IF Head(s) = Comma THEN SplitAcc(Tail(s), <<>>, Append(acc, cur))
    ELSE SplitAcc(Tail(s), Append(cur, Head(s)), acc)

Split(s) == SplitAcc(s, <<>>, <<>>)

-----------------------------------------------------------------------------
(* parseItemIDs, main.go:153-183 *)

\* the loop of lines 173-181 over parts[i..]
RECURSIVE ParseLoop(_, _, _)
ParseLoop(parts, i, acc) ==
    IF i > Len(parts) THEN acc
    ELSE LET trimmed == TrimSpace(parts[i])
         IN  ParseLoop(parts, i + 1, IF trimmed # <<>> THEN Append(acc, trimmed) ELSE acc)

\* mutant: the loop keeps the empty segments
RECURSIVE ParseLoopKeepEmpty(_, _, _)
ParseLoopKeepEmpty(parts, i, acc) ==
    IF i > Len(parts) THEN acc
    ELSE ParseLoopKeepEmpty(parts, i + 1, Append(acc, TrimSpace(parts[i])))

\* mutant: the segments are not trimmed
parseItemIDsNoTrim(raw) ==
    LET r == TrimSpace(raw)
    IN  IF r = <<>> THEN <<>> ELSE SelectSeq(Split(r), LAMBDA p : p # <<>>)

\* mutant: empty segments are kept
parseItemIDsKeepEmpty(raw) ==
    LET r == TrimSpace(raw)
    IN  IF r = <<>> THEN <<>> ELSE ParseLoopKeepEmpty(Split(r), 1, <<>>)

parseItemIDs(raw) ==
    LET r == TrimSpace(raw)
    IN  IF r = <<>> THEN <<>> ELSE ParseLoop(Split(r), 1, <<>>)

-----------------------------------------------------------------------------
(* Attribute values (types.AttributeValue) and their plain Go values *)

\* a types.AttributeValue is a tag and the Value field of that member (each
\* member has its own field, as each has its own Go type); the members the
\* type switch names:
S(v) == [tag |-> "S", s |-> v]
N(v) == [tag |-> "N", s |-> v]
BOOL(v) == [tag |-> "BOOL", b |-> v]
SS(v) == [tag |-> "SS", ss |-> v]
NS(v) == [tag |-> "NS", ss |-> v]
M(v) == [tag |-> "M", m |-> v]
L(v) == [tag |-> "L", l |-> v]
\* the members the type switch does not name: binary, binary set, null,
\* UnknownUnionMember, and the nil interface
OtherTags == {"B", "BS", "NULL", "Unknown", "nil"}
Other(t) == [tag |-> t]

\* what unwrapAttributeValue returns (an interface{}): the dynamic type and the value
GoString(v) == [kind |-> "string", s |-> v]
GoBool(v) == [kind |-> "bool", b |-> v]
GoStrings(v) == [kind |-> "[]string", ss |-> v]
GoMap(v) == [kind |-> "map", m |-> v]
GoList(v) == [kind |-> "[]interface", l |-> v]
GoNil == [kind |-> "nil"]
\* a panic unwinding out of the conversion (no such path in the code)
GoPanic == [kind |-> "panic"]

Panics(seqOrMap) == \E k \in DOMAIN seqOrMap : seqOrMap[k].kind = "panic"

\* mutant: the default case of the type switch panics instead of returning nil
RECURSIVE unwrapAttributeValueStrict(_)
unwrapAttributeValueStrict(val) ==
    CASE val.tag \in {"S", "N"} -> GoString(val.s)
      [] val.tag = "BOOL" -> GoBool(val.b)
      [] val.tag \in {"SS", "NS"} -> GoStrings(val.ss)
      [] val.tag = "M" ->
            LET out == [k \in DOMAIN val.m |-> unwrapAttributeValueStrict(val.m[k])]
            IN  IF Panics(out) THEN GoPanic ELSE GoMap(out)
      [] val.tag = "L" ->
            LET list == [i \in 1..Len(val.l) |-> unwrapAttributeValueStrict(val.l[i])]
            IN  IF Panics(list) THEN GoPanic ELSE GoList(list)
      [] OTHER -> GoPanic

\* mutant: the list is filled from its end
RECURSIVE unwrapAttributeValueReversed(_)
unwrapAttributeValueReversed(val) ==
    CASE val.tag \in {"S", "N"} -> GoString(val.s)
      [] val.tag = "BOOL" -> GoBool(val.b)
      [] val.tag \in {"SS", "NS"} -> GoStrings(val.ss)
      [] val.tag = "M" ->
            GoMap([k \in DOMAIN val.m |-> unwrapAttributeValueReversed(val.m[k])])
      [] val.tag = "L" ->
            GoList([i \in 1..Len(val.l) |->
                       unwrapAttributeValueReversed(val.l[Len(val.l) + 1 - i])])
      [] OTHER -> GoNil

\* main.go:290-332
RECURSIVE unwrapAttributeValue(_)
unwrapAttributeValue(val) ==
    CASE val.tag = "S" -> GoString(val.s)
      [] val.tag = "N" -> GoString(val.s)
      [] val.tag = "BOOL" -> GoBool(val.b)
      [] val.tag = "SS" -> GoStrings(val.ss)
      [] val.tag = "NS" -> GoStrings(val.ss)
      [] val.tag = "M" -> GoMap([k \in DOMAIN val.m |-> unwrapAttributeValue(val.m[k])])
      [] val.tag = "L" -> GoList([i \in 1..Len(val.l) |-> unwrapAttributeValue(val.l[i])])
      [] OTHER -> GoNil

\* main.go:278-288; a panic in a value unwinds out of the record
attributeValueToMap(item) ==
    LET out == [key \in DOMAIN item |-> unwrapAttributeValue(item[key])]
    IN  IF Panics(out) THEN GoPanic ELSE GoMap(out)

\* main.go:268-276; a []responseItem is [nil, elems], nil only for the zero value
GoSlice(elems) == [nil |-> FALSE, elems |-> elems]
NilSlice == [nil |-> TRUE, elems |-> <<>>]

\* a panic leaves the caller without a slice
PanicSlice == [nil |-> TRUE, elems |-> <<GoPanic>>]

convertItems(its) ==
    LET results == [i \in 1..Len(its) |-> attributeValueToMap(its[i])]
    IN  IF Panics(results) THEN PanicSlice ELSE GoSlice(results)

-----------------------------------------------------------------------------
(* The store: one DynamoDB table, read only *)

s1 == <<"s", "1">>
s2 == <<"s", "2">>

\* the table in scan order; its key is (StoreID, ItemID)
Table ==
    << [StoreID |-> S(s1), ItemID |-> S(<<"1">>), Price |-> N(<<"9", ".", "5", "0">>),
        InStock |-> BOOL(TRUE)],
       [StoreID |-> S(s2), ItemID |-> S(<<"1">>), Tags |-> SS(<< <<"a">>, <<"b">> >>),
        Image |-> Other("B")],
       [StoreID |-> S(s2), ItemID |-> S(<<"2">>),
        Dims |-> M([w |-> N(<<"3">>), note |-> Other("NULL")]),
        Hist |-> L(<<S(<<"x">>), Other("BS")>>)] >>

SameKey(item, key) == item.StoreID.s = key.StoreID.s /\ item.ItemID.s = key.ItemID.s

\* BatchGetItem: the items whose key is among the requested keys, each once
\* (a key asked for twice is answered once; a key without an item is left out)
BatchGetItemOutput(input) ==
    SelectSeq(Table, LAMBDA item : \E i \in 1..Len(input.keys) : SameKey(item, input.keys[i]))

FilterPrefix == <<"I", "t", "e", "m", "I", "D", " ", "I", "N", " ", "(">>

\* the operands of "ItemID IN (...)": the text between the parentheses, split at commas
FilterOperands(filter) == Split(SubSeq(filter, Len(FilterPrefix) + 1, Len(filter) - 1))

\* the filter expression evaluated on one item, placeholders looked up in exprVals
FilterHolds(input, item) ==
    \E i \in 1..Len(FilterOperands(input.filter)) :
        LET name == FilterOperands(input.filter)[i]
        IN  name \in DOMAIN input.exprVals /\ item.ItemID.s = input.exprVals[name].s

\* Scan: one page, the matching items among the first n items the store read
\* (the store ends a page at its size limit; the code reads out.Items only)
ScanOutput(input, n) ==
    SelectSeq(SubSeq(Table, 1, n), LAMBDA item : FilterHolds(input, item))

-----------------------------------------------------------------------------
(* The two query strategies *)

Digits == <<"0", "1", "2", "3", "4", "5", "6", "7", "8", "9">>

\* strconv.Itoa for n >= 0
RECURSIVE Itoa(_)
Itoa(n) == IF n < 10 THEN <<Digits[n + 1]>> ELSE Itoa(n \div 10) \o <<Digits[(n % 10) + 1]>>

\* strings.Join(elems, ",")
RECURSIVE Join(_)
Join(elems) ==
    IF elems = <<>> THEN <<>>
    ELSE IF Len(elems) = 1 THEN elems[1]
    ELSE elems[1] \o <<Comma>> \o Join(Tail(elems))

NoExprVals == [k \in {} |-> S(<<>>)]

\* main.go:197-214: the BatchGetItemInput
BatchGetItemInput(sid, itemIDs) ==
    [op |-> "BatchGetItem",
     keys |-> [i \in 1..Len(itemIDs) |-> [StoreID |-> S(sid), ItemID |-> S(itemIDs[i])]],
     filter |-> <<>>,
     exprVals |-> NoExprVals]

\* main.go:241: key := ":v" + strconv.Itoa(i), i counted from 0
Placeholder(i) == <<":", "v">> \o Itoa(i)

\* mutant: the identifiers are concatenated into the expression
ScanInputInline(itemIDs) ==
    [op |-> "Scan",
     keys |-> <<>>,
     filter |-> FilterPrefix \o Join(itemIDs) \o <<")">>,
     exprVals |-> [k \in {itemIDs[i] : i \in 1..Len(itemIDs)} |-> S(k)]]

\* main.go:234-256: the ScanInput
ScanInput(itemIDs) ==
    [op |-> "Scan",
     keys |-> <<>>,
     filter |-> FilterPrefix \o Join([i \in 1..Len(itemIDs) |-> Placeholder(i - 1)]) \o <<")">>,
     exprVals |-> [k \in {Placeholder(i - 1) : i \in 1..Len(itemIDs)} |->
                      S(itemIDs[CHOOSE i \in 1..Len(itemIDs) : Placeholder(i - 1) = k])]]

-----------------------------------------------------------------------------
(* Requests and responses *)

Reqs == {1, 2}       \* the handler goroutines that may run at once

Methods == {"GET", "OPTIONS", "POST", "DELETE", "HEAD"}

\* the itemIds parameter of the (decoded) query string: absent, or its first value
NoParam == [present |-> FALSE, value |-> <<>>]
Param(v) == [present |-> TRUE, value |-> v]

BlankChars == {" ", ","}

\* queries that name identifiers: "1" / "1,2" / "1,1" / " 2, 3,"
IdQueries ==
    { <<"1">>, <<"1", ",", "2">>, <<"1", ",", "1">>, <<" ", "2", ",", " ", "3", ",">> }

Queries == {NoParam} \cup {Param(v) : v \in Strs(BlankChars, MaxBlankLen) \cup IdQueries}

\* url.Values.Get: "" when the parameter is absent
QueryGet(q) == IF q.present THEN q.value ELSE <<>>

NoReq == [method |-> "", query |-> NoParam]

NoBody == [kind |-> "none", text |-> "", itemIds |-> <<>>, items |-> NilSlice]
TextBody(t) == [kind |-> "text", text |-> t, itemIds |-> <<>>, items |-> NilSlice]
\* json.NewEncoder(w).Encode(apiResponse{...}): a nil slice encodes as null
JsonBody(itemIds, its) == [kind |-> "json", text |-> "", itemIds |-> itemIds, items |-> its]

\* the ResponseWriter: status 0 until WriteHeader or the first Write
NoResp == [status |-> 0, headers |-> {}, body |-> NoBody]

\* http.Header.Set
SetHeader(w, name, value) ==
    [w EXCEPT !.headers = {h \in @ : h[1] # name} \cup {<<name, value>>}]

\* mutant: the Allow-Headers header is forgotten
setCommonHeadersTwo(w) ==
    SetHeader(SetHeader(w, "Access-Control-Allow-Origin", "*"),
              "Access-Control-Allow-Methods", "GET,OPTIONS")

\* main.go:185-191
setCommonHeaders(w) ==
    SetHeader(SetHeader(SetHeader(w, "Access-Control-Allow-Origin", "*"),
                        "Access-Control-Allow-Methods", "GET,OPTIONS"),
              "Access-Control-Allow-Headers", "Content-Type,Accept")

\* http.Error: plain-text headers, the status, the message and a newline
HttpError(w, msg, code) ==
    [SetHeader(SetHeader(w, "Content-Type", "text/plain; charset=utf-8"),
               "X-Content-Type-Options", "nosniff")
        EXCEPT !.status = code, !.body = TextBody(msg \o "\n")]

\* main.go:79: WriteHeader(http.StatusNoContent), nothing written after it
NoContent(w) == [w EXCEPT !.status = 204]

\* main.go:124-134: Content-Type, then the first Write sends status 200
WriteJson(w, itemIds, its) ==
    [SetHeader(w, "Content-Type", "application/json")
        EXCEPT !.status = 200, !.body = JsonBody(itemIds, its)]

-----------------------------------------------------------------------------
(* The /items handler, main.go:73-135 *)

NilErr == "nil"
ErrStore == "ResourceNotFoundException: Requested resource not found"
ErrDeadline == "context deadline exceeded"
ErrCanceled == "context canceled"

TimeoutSeconds == 5

NoRet == [returned |-> FALSE, items |-> NilSlice, err |-> NilErr]
Returned(its, e) == [returned |-> TRUE, items |-> its, err |-> e]

\* mutant: the identifiers are validated before the method is looked at
HandlerExitValidateFirst(method, query) ==
    IF method = "OPTIONS" THEN "preflight"
    ELSE IF parseItemIDs(QueryGet(query)) = <<>> THEN "badRequest"
    ELSE IF method # "GET" THEN "notAllowed"
    ELSE "query"

\* mutant: the preflight test comes after the GET test
HandlerExitGetFirst(method, query) ==
    IF method # "GET" THEN "notAllowed"
    ELSE IF method = "OPTIONS" THEN "preflight"
    ELSE IF parseItemIDs(QueryGet(query)) = <<>> THEN "badRequest"
    ELSE "query"

\* main.go:78-95: which way the handler goes before any store access
HandlerExit(method, query) ==
    IF method = "OPTIONS" THEN "preflight"
    ELSE IF method # "GET" THEN "notAllowed"
    ELSE IF parseItemIDs(QueryGet(query)) = <<>> THEN "badRequest"
    ELSE "query"

\* main.go:91 is reached on these exits only
ParsesIds(exit) == exit \in {"badRequest", "query"}

\* main.go:108-113: batch get with a partition key, scan without
StoreInput(sid, itemIDs) ==
    IF sid # <<>> THEN BatchGetItemInput(sid, itemIDs) ELSE ScanInput(itemIDs)

\* main.go:73-113: a request arrives and its handler runs up to its return or
\* up to the store call
Serve(r) ==
    /\ pc[r] = "idle"
    /\ \E method \in Methods, query \in Queries :
        LET w == setCommonHeaders(NoResp)
            exit == HandlerExit(method, query)
            parsed == IF ParsesIds(exit) THEN parseItemIDs(QueryGet(query)) ELSE <<>>
        IN  /\ req' = [req EXCEPT ![r] = [method |-> method, query |-> query]]
            /\ parses' = [parses EXCEPT ![r] = IF ParsesIds(exit) THEN 1 ELSE 0]
            /\ ids' = [ids EXCEPT ![r] = parsed]
            /\ CASE exit = "preflight" ->
                      /\ resp' = [resp EXCEPT ![r] = NoContent(w)]
                      /\ pc' = [pc EXCEPT ![r] = "done"]
                      /\ UNCHANGED <<calls, ctx>>
                 [] exit = "notAllowed" ->
                      /\ resp' = [resp EXCEPT ![r] = HttpError(w, "method not allowed", 405)]
                      /\ pc' = [pc EXCEPT ![r] = "done"]
                      /\ UNCHANGED <<calls, ctx>>
                 [] exit = "badRequest" ->
                      /\ resp' = [resp EXCEPT ![r] = HttpError(w, "itemIds is required", 400)]
                      /\ pc' = [pc EXCEPT ![r] = "done"]
                      /\ UNCHANGED <<calls, ctx>>
                 [] OTHER ->
                      /\ resp' = [resp EXCEPT ![r] = w]
                      /\ ctx' = [ctx EXCEPT ![r] = "live"]
                      /\ calls' = [calls EXCEPT ![r] = Append(@, StoreInput(storeID, parsed))]
                      /\ pc' = [pc EXCEPT ![r] = "called"]
    /\ UNCHANGED <<storeID, err, elapsed, ret, items, health, arg, result>>

\* main.go:109/112: the assignment `items, err = ...` when the call returns.
\* items is the local of line 105; err is the variable of main (line 54) that
\* the closure captures, so every handler goroutine writes the same err and
\* reads it again at line 115 with no synchronisation.  A handler reads what
\* was written last, by itself or by another handler; a torn interface value
\* tests either nil or non-nil and so takes one of the same two branches.
StoreReturns(r, its, e, c) ==
    /\ ret' = [ret EXCEPT ![r] = Returned(its, e)]
    /\ items' = [items EXCEPT ![r] = its]
    /\ err' = e
    /\ ctx' = [ctx EXCEPT ![r] = c]
    /\ pc' = [pc EXCEPT ![r] = "returned"]
    /\ UNCHANGED <<storeID, req, ids, parses, calls, elapsed, resp, health, arg, result>>

InFlight(r) == pc[r] = "called"
TheCall(r) == calls[r][Len(calls[r])]

\* main.go:219-228: BatchGetItem answers
BatchGetSucceeds(r) ==
    /\ InFlight(r) /\ TheCall(r).op = "BatchGetItem"
    /\ StoreReturns(r, convertItems(BatchGetItemOutput(TheCall(r))), NilErr, ctx[r])

\* main.go:260-265: Scan answers with one page, having read n items of the table
ScanSucceeds(r) ==
    /\ InFlight(r) /\ TheCall(r).op = "Scan"
    /\ \E n \in 0..Len(Table) :
          StoreReturns(r, convertItems(ScanOutput(TheCall(r), n)), NilErr, ctx[r])

\* main.go:220-224, 261-263: the store call fails
StoreFails(r) ==
    /\ InFlight(r)
    /\ StoreReturns(r, NilSlice, ErrStore, ctx[r])

\* time passes for the calls in flight; none outlives its deadline
Tick ==
    /\ \E r \in Reqs : InFlight(r)
    /\ \A r \in Reqs : InFlight(r) => elapsed[r] < TimeoutSeconds
    /\ elapsed' = [r \in Reqs |-> IF InFlight(r) THEN elapsed[r] + 1 ELSE elapsed[r]]
    /\ UNCHANGED <<storeID, err, pc, req, ids, parses, calls, ctx, ret, items, resp, health, arg, result>>

\* main.go:100: the deadline of ctx passes with the call in flight; the call
\* returns the context's error
DeadlineExpires(r) ==
    /\ InFlight(r) /\ elapsed[r] = TimeoutSeconds
    /\ StoreReturns(r, NilSlice, ErrDeadline, "deadline")

\* main.go:100: r.Context() is cancelled (the client went away) with the call in flight
ClientDisconnects(r) ==
    /\ InFlight(r)
    /\ StoreReturns(r, NilSlice, ErrCanceled, "canceled")

\* main.go:115-134, then the deferred cancel() of line 101
Respond(r) ==
    /\ pc[r] = "returned"
    /\ resp' = [resp EXCEPT ![r] =
                  IF err # NilErr
                  THEN HttpError(@, "failed to query items", 500)
                  ELSE WriteJson(@, ids[r], items[r])]
    /\ ctx' = [ctx EXCEPT ![r] = "released"]
    /\ elapsed' = [elapsed EXCEPT ![r] = 0]
    /\ pc' = [pc EXCEPT ![r] = "done"]
    /\ UNCHANGED <<storeID, err, req, ids, parses, calls, ret, items, health, arg, result>>

\* mutant: /health answers GET only
healthHandlerGetOnly(method, query) ==
    IF method = "GET"
    THEN [method |-> method,
          resp |-> [setCommonHeaders(NoResp) EXCEPT !.status = 200, !.body = TextBody("ok")],
          calls |-> <<>>]
    ELSE [method |-> method,
          resp |-> HttpError(setCommonHeaders(NoResp), "method not allowed", 405),
          calls |-> <<>>]

\* main.go:138-142: the /health handler, for any method and query; it takes
\* neither the client nor err nor a context
healthHandler(method, query) ==
    [method |-> method,
     resp |-> [setCommonHeaders(NoResp) EXCEPT !.status = 200, !.body = TextBody("ok")],
     calls |-> <<>>]

NoHealth == [method |-> "", resp |-> NoResp, calls |-> <<>>]

\* a /health request arrives and is answered, whatever the /items handlers do
\* (one probe is followed; its query is absent or names an identifier)
Health ==
    /\ health = NoHealth
    /\ \E method \in Methods, query \in {NoParam, Param(<<"1">>)} :
          health' = healthHandler(method, query)
    /\ UNCHANGED <<storeID, err, pc, req, ids, parses, calls, ctx, elapsed, ret, items, resp,
                   arg, result>>

NotRun == [ran |-> FALSE, out |-> <<>>]
Ran(v) == [ran |-> TRUE, out |-> v]

\* main.go:36-63: the state when the server starts to listen
HandlerInit ==
    /\ err = NilErr
    /\ pc = [r \in Reqs |-> "idle"]
    /\ req = [r \in Reqs |-> NoReq]
    /\ ids = [r \in Reqs |-> <<>>]
    /\ parses = [r \in Reqs |-> 0]
    /\ calls = [r \in Reqs |-> <<>>]
    /\ ctx = [r \in Reqs |-> "none"]
    /\ elapsed = [r \in Reqs |-> 0]
    /\ ret = [r \in Reqs |-> NoRet]
    /\ items = [r \in Reqs |-> NilSlice]
    /\ resp = [r \in Reqs |-> NoResp]
    /\ health = NoHealth

Init ==
    /\ storeID \in {<<>>, s1}
    /\ HandlerInit
    /\ arg = <<>>
    /\ result = NotRun

Next ==
    \/ \E r \in Reqs : Serve(r)
    \/ \E r \in Reqs : BatchGetSucceeds(r)
    \/ \E r \in Reqs : ScanSucceeds(r)
    \/ \E r \in Reqs : StoreFails(r)
    \/ Tick
    \/ \E r \in Reqs : DeadlineExpires(r)
    \/ \E r \in Reqs : ClientDisconnects(r)
    \/ \E r \in Reqs : Respond(r)
    \/ Health

Spec == Init /\ [][Next]_vars

-----------------------------------------------------------------------------
(* parseItemIDs on its own: every raw string up to MaxLen, and the example *)

\* "1, 2 ,3,,"
ExampleRaw == <<"1", ",", " ", "2", " ", ",", "3", ",", ",">>

ParseInit ==
    /\ storeID = <<>>
    /\ HandlerInit
    /\ arg \in Strs(Chars, MaxLen) \cup {ExampleRaw}
    /\ result = NotRun

Parse ==
    /\ ~result.ran
    /\ result' = Ran(parseItemIDs(arg))
    /\ UNCHANGED <<arg, storeID, err, pc, req, ids, parses, calls, ctx, elapsed, ret, items, resp, health>>

SpecParse == ParseInit /\ [][Parse]_vars

-----------------------------------------------------------------------------
(* scanByItemIDs' request on its own: two identifier lists side by side *)

MaxIds == 2          \* longest identifier list given to scanByItemIDs

\* identifiers as parseItemIDs can return them, one of them shaped like an
\* expression fragment: "1" / "ab" / "0) OR (1"
IdPool ==
    { <<"1">>, <<"a", "b">>, <<"0", ")", " ", "O", "R", " ", "(", "1">> }

IdLists == Strs(IdPool, MaxIds) \ {<<>>}

ScanInit ==
    /\ storeID = <<>>
    /\ HandlerInit
    /\ arg \in IdLists \X IdLists
    /\ result = NotRun

BuildScans ==
    /\ ~result.ran
    /\ result' = Ran(<<ScanInput(arg[1]), ScanInput(arg[2])>>)
    /\ UNCHANGED <<arg, storeID, err, pc, req, ids, parses, calls, ctx, elapsed, ret, items, resp, health>>

SpecScan == ScanInit /\ [][BuildScans]_vars

-----------------------------------------------------------------------------
(* The normaliser on its own: attribute values up to MaxNodes nodes, and
   lists of up to two records *)

MaxNodes == 4        \* most nodes (leaves, maps, lists) of an attribute value

AttrNames == {"k1", "k2"}

Leaves ==
    { S(<<"a">>), N(<<"1", ".", "5", "0">>), BOOL(TRUE),
      SS(<< <<"a">>, <<"b">> >>), NS(<< <<"1">>, <<"2">> >>),
      Other("NULL"), Other("nil") }

EmptyMap == [k \in {} |-> Other("nil")]

RECURSIVE AVsOfSize(_), ListsOfSize(_), MapsOfSize(_)
\* the attribute values of exactly n nodes
AVsOfSize(n) ==
    IF n = 1 THEN Leaves \cup {M(EmptyMap), L(<<>>)}
    ELSE {L(l) : l \in ListsOfSize(n - 1) \ {<<>>}} \cup {M(m) : m \in MapsOfSize(n - 1) \ {EmptyMap}}
\* the sequences of attribute values of n nodes in all
ListsOfSize(n) ==
    IF n = 0 THEN {<<>>}
    ELSE UNION {{<<h>> \o t : h \in AVsOfSize(k), t \in ListsOfSize(n - k)} : k \in 1..n}
\* the maps over AttrNames of n nodes in all
MapsOfSize(n) ==
    IF n = 0 THEN {EmptyMap}
    ELSE UNION {{[k \in {a} |-> v] : v \in AVsOfSize(n)} : a \in AttrNames}
         \cup UNION {{[k1 |-> v, k2 |-> w] : v \in AVsOfSize(j), w \in AVsOfSize(n - j)} :
                        j \in 1..(n - 1)}

AVs == UNION {AVsOfSize(n) : n \in 1..MaxNodes}

\* records (map[string]types.AttributeValue) of fewer nodes, and lists of them
Records == UNION {MapsOfSize(n) : n \in 0..(MaxNodes - 3)}
RecordLists == Strs(Records, 2)

UnwrapInit ==
    /\ storeID = <<>>
    /\ HandlerInit
    /\ arg \in {[fn |-> "unwrapAttributeValue", av |-> v] : v \in AVs}
                \cup {[fn |-> "convertItems", its |-> l] : l \in RecordLists}
    /\ result = NotRun

Unwrap ==
    /\ ~result.ran /\ arg.fn = "unwrapAttributeValue"
    /\ result' = Ran(unwrapAttributeValue(arg.av))
    /\ UNCHANGED <<arg, storeID, err, pc, req, ids, parses, calls, ctx, elapsed, ret, items, resp, health>>

Convert ==
    /\ ~result.ran /\ arg.fn = "convertItems"
    /\ result' = Ran(convertItems(arg.its))
    /\ UNCHANGED <<arg, storeID, err, pc, req, ids, parses, calls, ctx, elapsed, ret, items, resp, health>>

UnwrapNext == Unwrap \/ Convert

SpecUnwrap == UnwrapInit /\ [][UnwrapNext]_vars

-----------------------------------------------------------------------------
(* The two strategies side by side: the same table and identifiers, asked
   once with a partition key and once without *)

\* main.go:193-229 with the store's answer
batchGetItems(sid, itemIDs) ==
    convertItems(BatchGetItemOutput(BatchGetItemInput(sid, itemIDs)))

\* main.go:231-266 with the store's answer, a page that ends after n items read
scanByItemIDs(itemIDs, n) ==
    convertItems(ScanOutput(ScanInput(itemIDs), n))

ItemIdPool == { <<"1">>, <<"2">>, <<"3">> }

PathsInit ==
    /\ storeID = <<>>
    /\ HandlerInit
    /\ arg \in [sid : {s1, s2}, itemIDs : Strs(ItemIdPool, MaxIds) \ {<<>>}]
    /\ result = [ran |-> FALSE, out |-> [batch |-> NoRet, scan |-> NoRet]]

RunBatch ==
    /\ ~result.out.batch.returned
    /\ result' = [ran |-> result.out.scan.returned,
                  out |-> [result.out EXCEPT
                              !.batch = Returned(batchGetItems(arg.sid, arg.itemIDs), NilErr)]]
    /\ UNCHANGED <<arg, storeID, err, pc, req, ids, parses, calls, ctx, elapsed, ret, items, resp, health>>

RunScan ==
    /\ ~result.out.scan.returned
    /\ \E n \in 0..Len(Table) :
          result' = [ran |-> result.out.batch.returned,
                     out |-> [result.out EXCEPT
                                 !.scan = Returned(scanByItemIDs(arg.itemIDs, n), NilErr)]]
    /\ UNCHANGED <<arg, storeID, err, pc, req, ids, parses, calls, ctx, elapsed, ret, items, resp, health>>

PathsNext == RunBatch \/ RunScan

SpecPaths == PathsInit /\ [][PathsNext]_vars

-----------------------------------------------------------------------------
(* Claims *)

Started(r) == pc[r] # "idle"
Done(r) == pc[r] = "done"

\* nothing but white space and commas (the empty string included)
Blank(s) == \A i \in 1..Len(s) : s[i] \in Space \cup {Comma}

\* C1: a GET request whose itemIds parameter is missing, empty, all white
\* space, or only commas and white space is answered 400, and no store call
\* (BatchGetItem or Scan) is ever issued for it.
C1_BlankIdsRejected ==
    \A r \in Reqs :
        (Started(r) /\ req[r].method = "GET" /\ Blank(QueryGet(req[r].query)))
            => /\ Done(r)
               /\ resp[r].status = 400
               /\ calls[r] = <<>>
               /\ ~ret[r].returned

C1_Witness ==
    \E r \in Reqs :
        /\ Done(r) /\ req[r].method = "GET"
        /\ req[r].query = Param(<<" ", ",">>)
        /\ resp[r].status = 400

\* the segments of a string, by the positions of its commas
CommaAt(s) == {i \in 1..Len(s) : s[i] = Comma}
Cuts(s) == {0} \cup CommaAt(s) \cup {Len(s) + 1}
SegmentFrom(s, lo) ==
    LET hi == CHOOSE h \in Cuts(s) : h > lo /\ \A k \in Cuts(s) : k > lo => h <= k
    IN  SubSeq(s, lo + 1, hi - 1)
\* the k-th cut, counted from 1
RECURSIVE NthCut(_, _)
NthCut(s, k) ==
    IF k = 1 THEN 0
    ELSE LET prev == NthCut(s, k - 1)
         IN  CHOOSE h \in Cuts(s) : h > prev /\ \A j \in Cuts(s) : j > prev => h <= j
Segments(s) == [k \in 1..(Cardinality(CommaAt(s)) + 1) |-> SegmentFrom(s, NthCut(s, k))]

\* a string without its leading and trailing white space, by positions
Inner(s) ==
    LET solid == {i \in 1..Len(s) : s[i] \notin Space}
    IN  IF solid = {} THEN <<>>
        ELSE SubSeq(s, CHOOSE i \in solid : \A j \in solid : i <= j,
                       CHOOSE i \in solid : \A j \in solid : i >= j)

ExpectedIds(s) ==
    SelectSeq([k \in DOMAIN Segments(s) |-> Inner(Segments(s)[k])], LAMBDA seg : seg # <<>>)

\* C2: parseItemIDs returns exactly the comma-separated segments of the raw
\* string, each without its surrounding white space, the empty ones dropped,
\* in order and with duplicates kept; "1, 2 ,3,," gives ["1","2","3"]; no
\* identifier returned is empty or begins or ends with white space.
C2_ParseSegments ==
    result.ran =>
        /\ result.out = ExpectedIds(arg)
        /\ \A i \in 1..Len(result.out) :
              LET id == result.out[i]
              IN  id # <<>> /\ id[1] \notin Space /\ id[Len(id)] \notin Space
        /\ arg = ExampleRaw => result.out = << <<"1">>, <<"2">>, <<"3">> >>

C2_Witness ==
    /\ result.ran /\ arg = <<" ", "1", ",", "\t", "1">>
    /\ result.out = << <<"1">>, <<"1">> >>

\* the request ran its store call to the end and its handler has answered
Answered(r) == Done(r) /\ ret[r].returned

Failed(r) == ret[r].returned /\ ret[r].err # NilErr
Succeeded(r) == ret[r].returned /\ ret[r].err = NilErr

InternalError(w) == w.status = 500 /\ w.body = TextBody("failed to query items\n")

\* C3: when the store call of a GET /items request returns an error, the
\* handler answers 500 with the fixed body "failed to query items" (no error
\* text in it), and the store was called exactly once for the request.
C3_StoreErrorIs500 ==
    \A r \in Reqs :
        (Done(r) /\ Failed(r)) => InternalError(resp[r]) /\ Len(calls[r]) = 1

\* the composite keys of a batch get, one per identifier, in order
KeysOf(sid, itemIDs) ==
    [i \in 1..Len(itemIDs) |-> [StoreID |-> [tag |-> "S", s |-> sid],
                                ItemID |-> [tag |-> "S", s |-> itemIDs[i]]]]

\* C4: with a partition key configured, a valid GET /items request issues
\* exactly one BatchGetItem with one composite key (StoreID = partition key,
\* ItemID = ids[i]) per parsed identifier, in order, duplicates kept; once the
\* store has answered, the response is 200, its records are the normalised
\* records the store returned, and its itemIds are the full identifier list.
C4_BatchGetAnswer ==
    \A r \in Reqs :
        (storeID # <<>> /\ req[r].method = "GET" /\ Started(r)
            /\ ~Blank(QueryGet(req[r].query))) =>
            /\ Len(calls[r]) = 1
            /\ calls[r][1].op = "BatchGetItem"
            /\ calls[r][1].keys = KeysOf(storeID, ExpectedIds(QueryGet(req[r].query)))
            /\ (Done(r) /\ Succeeded(r)) =>
                  /\ resp[r].status = 200
                  /\ resp[r].body.kind = "json"
                  /\ resp[r].body.items = ret[r].items
                  /\ resp[r].body.itemIds = ExpectedIds(QueryGet(req[r].query))

\* "ItemID IN (:v0,:v1,...)" for n identifiers, character by character
ExpectedFilter(n) ==
    [i \in 1..(Len(FilterPrefix) + 4 * n) |->
        IF i <= Len(FilterPrefix) THEN FilterPrefix[i]
        ELSE LET j == i - Len(FilterPrefix) - 1
                 k == j \div 4
             IN  CASE j % 4 = 0 -> ":"
                   [] j % 4 = 1 -> "v"
                   [] j % 4 = 2 -> Digits[k + 1]
                   [] OTHER -> IF k = n - 1 THEN ")" ELSE ","]

\* C5: for N identifiers scanByItemIDs builds "ItemID IN (:v0,...,:v(N-1))"
\* and binds :vK to identifier K as a string value; the expression depends on
\* N alone, so two identifier lists of the same length give the same
\* expression whatever the identifiers contain.
C5_FilterByPlaceholders ==
    result.ran =>
        /\ \A x \in 1..2 :
              LET n == Len(arg[x])
                  in == result.out[x]
              IN  /\ in.op = "Scan"
                  /\ in.filter = ExpectedFilter(n)
                  /\ Cardinality(DOMAIN in.exprVals) = n
                  /\ \A k \in 0..(n - 1) :
                        /\ <<":", "v", Digits[k + 1]>> \in DOMAIN in.exprVals
                        /\ in.exprVals[<<":", "v", Digits[k + 1]>>]
                              = [tag |-> "S", s |-> arg[x][k + 1]]
        /\ Len(arg[1]) = Len(arg[2]) => result.out[1].filter = result.out[2].filter

C5_Witness ==
    /\ result.ran
    /\ arg[1] = << <<"1">>, <<"a", "b">> >>
    /\ arg[2] = << <<"0", ")", " ", "O", "R", " ", "(", "1">>, <<"1">> >>
    /\ result.out[1].filter = result.out[2].filter
    /\ result.out[1].exprVals # result.out[2].exprVals

CorsHeaders ==
    { <<"Access-Control-Allow-Origin", "*">>,
      <<"Access-Control-Allow-Methods", "GET,OPTIONS">>,
      <<"Access-Control-Allow-Headers", "Content-Type,Accept">> }

\* C6: an OPTIONS request to /items gets 204 with no body and the three
\* Access-Control headers, whatever its query, and causes neither a
\* parseItemIDs call nor a store call.
C6_Preflight ==
    \A r \in Reqs :
        (Started(r) /\ req[r].method = "OPTIONS") =>
            /\ Done(r)
            /\ resp[r].status = 204
            /\ resp[r].body = NoBody
            /\ CorsHeaders \subseteq resp[r].headers
            /\ parses[r] = 0
            /\ calls[r] = <<>>

C6_Witness ==
    \E r \in Reqs :
        /\ Done(r) /\ req[r].method = "OPTIONS" /\ req[r].query = Param(<<"1", ",", "2">>)
        /\ resp[r].status = 204

\* C7: a request to /items with a method other than GET and OPTIONS is
\* answered 405 "method not allowed" without a store call, also when its
\* itemIds is missing or empty (405, not 400).
C7_MethodNotAllowed ==
    \A r \in Reqs :
        (Started(r) /\ req[r].method \notin {"GET", "OPTIONS"}) =>
            /\ Done(r)
            /\ resp[r].status = 405
            /\ resp[r].body = TextBody("method not allowed\n")
            /\ calls[r] = <<>>

C7_Witness ==
    \E r \in Reqs :
        /\ Done(r) /\ req[r].method = "POST" /\ req[r].query = NoParam
        /\ resp[r].status = 405

\* C8: every response of the /items route carries the three cross-origin
\* headers, on each exit of the handler: 204, 405, 400, 500 and 200.
C8_CorsOnEveryResponse ==
    \A r \in Reqs :
        resp[r].status # 0 =>
            /\ resp[r].status \in {204, 405, 400, 500, 200}
            /\ CorsHeaders \subseteq resp[r].headers
            /\ \A h \in CorsHeaders :
                  Cardinality({g \in resp[r].headers : g[1] = h[1]}) = 1

C8_Witness ==
    \E r, q \in Reqs :
        /\ resp[r].status = 500 /\ resp[q].status = 200
        /\ CorsHeaders \subseteq resp[r].headers
        /\ CorsHeaders \subseteq resp[q].headers

\* C9: a valid GET /items request runs its store call under a 5-second
\* deadline derived from the request's context: a call in flight at the
\* deadline, or when the client disconnects, is cancelled, the handler answers
\* 500, and no store call of the request runs on after the handler returned.
C9_DeadlineIs500 ==
    \A r \in Reqs :
        /\ InFlight(r) => ctx[r] = "live" /\ elapsed[r] <= TimeoutSeconds
        /\ Done(r) => ~InFlight(r)
        /\ (Done(r) /\ ret[r].err \in {ErrDeadline, ErrCanceled}) => InternalError(resp[r])

\* out is what the type switch makes of av, at every depth
RECURSIVE Normalized(_, _)
Normalized(av, out) ==
    CASE av.tag \in {"S", "N"} -> out = [kind |-> "string", s |-> av.s]
      [] av.tag = "BOOL" -> out = [kind |-> "bool", b |-> av.b]
      [] av.tag \in {"SS", "NS"} -> out = [kind |-> "[]string", ss |-> av.ss]
      [] av.tag = "M" ->
            /\ out.kind = "map"
            /\ DOMAIN out.m = DOMAIN av.m
            /\ \A k \in DOMAIN av.m : Normalized(av.m[k], out.m[k])
      [] av.tag = "L" ->
            /\ out.kind = "[]interface"
            /\ Len(out.l) = Len(av.l)
            /\ \A i \in 1..Len(av.l) : Normalized(av.l[i], out.l[i])
      [] OTHER -> out = [kind |-> "nil"]

\* C10: unwrapAttributeValue is total: every attribute value, nested maps and
\* lists included, gets a value; a string, number or boolean gives its wrapped
\* value (a number its decimal string), a string set or number set its
\* strings, and a value of a tag the switch does not name gives nil, also
\* inside a map or list, without aborting the record around it or the other
\* records of convertItems.
C10_UnwrapTotal ==
    result.ran =>
        /\ arg.fn = "unwrapAttributeValue" => Normalized(arg.av, result.out)
        /\ arg.fn = "convertItems" =>
              /\ ~result.out.nil
              /\ Len(result.out.elems) = Len(arg.its)
              /\ \A i \in 1..Len(arg.its) :
                    Normalized([tag |-> "M", m |-> arg.its[i]], result.out.elems[i])

C10_Witness ==
    /\ result.ran /\ arg.fn = "convertItems"
    /\ arg.its = << [k \in {"k1"} |-> Other("NULL")], [k \in {"k2"} |-> N(<<"1", ".", "5", "0">>)] >>
    /\ result.out.elems[1].m["k1"] = GoNil
    /\ result.out.elems[2].m["k2"] = GoString(<<"1", ".", "5", "0">>)

C10_WitnessNested ==
    /\ result.ran /\ arg.fn = "unwrapAttributeValue"
    /\ arg.av = L(<<M([k \in {"k1"} |-> Other("nil")]), BOOL(TRUE)>>)
    /\ result.out = GoList(<<GoMap([k \in {"k1"} |-> GoNil]), GoBool(TRUE)>>)

\* C11: the /health route answers 200 with body "ok" to every request,
\* whatever its method or query, and issues no store call; its answer is the
\* same whether the store fails or not and whatever /items requests are in
\* flight.
C11_HealthAlwaysOk ==
    health # NoHealth =>
        /\ health.resp.status = 200
        /\ health.resp.body = TextBody("ok")
        /\ health.calls = <<>>

\* a POST to /health answered while one /items call is in flight and another
\* has just failed
C11_Witness ==
    /\ health.method = "POST" /\ health.resp.status = 200
    /\ \E r, q \in Reqs : InFlight(r) /\ pc[q] = "returned" /\ err = ErrStore

\* C12: requests are handled independently under every interleaving of the
\* /items handlers: a handler tests the err its own store call returned (no
\* variable written by one handler is read by another), so a request whose
\* call succeeded answers 200 with its own identifiers and records, and a
\* request whose call failed answers 500.
C12_RequestsIndependent ==
    \A r \in Reqs :
        /\ pc[r] = "returned" => err = ret[r].err
        /\ Answered(r) =>
              IF ret[r].err = NilErr
              THEN /\ resp[r].status = 200
                   /\ resp[r].body = JsonBody(ids[r], ret[r].items)
              ELSE resp[r].status = 500

\* the records of the table whose ItemID is one of the identifiers, in scan order
Matching(itemIDs) ==
    SelectSeq(Table, LAMBDA item : \E i \in 1..Len(itemIDs) : item.ItemID.s = itemIDs[i])

\* C13: without a partition key, the records of a successful request are all
\* the records of the table whose ItemID is one of the requested identifiers,
\* whatever the size of the table: no matching record is missing.
C13_ScanReturnsAllMatches ==
    \A r \in Reqs :
        (storeID = <<>> /\ Succeeded(r)) =>
            /\ ~ret[r].items.nil
            /\ Len(ret[r].items.elems) = Len(Matching(ids[r]))
            /\ \A i \in 1..Len(Matching(ids[r])) :
                  ret[r].items.elems[i].m["ItemID"] = [kind |-> "string", s |-> Matching(ids[r])[i].ItemID.s]

\* built from the tags the type switch names only
RECURSIVE Recognized(_)
Recognized(av) ==
    CASE av.tag = "M" -> \A k \in DOMAIN av.m : Recognized(av.m[k])
      [] av.tag = "L" -> \A i \in 1..Len(av.l) : Recognized(av.l[i])
      [] OTHER -> av.tag \in {"S", "N", "BOOL", "SS", "NS"}

\* the nesting of an attribute value: maps with their keys, lists with their
\* positions, anything else a leaf
RECURSIVE InShape(_)
InShape(av) ==
    CASE av.tag = "M" -> [shape |-> "map", at |-> [k \in DOMAIN av.m |-> InShape(av.m[k])]]
      [] av.tag = "L" -> [shape |-> "list", el |-> [i \in 1..Len(av.l) |-> InShape(av.l[i])]]
      [] OTHER -> [shape |-> "leaf"]

\* the nesting of a Go value
RECURSIVE OutShape(_)
OutShape(out) ==
    CASE out.kind = "map" ->
            [shape |-> "map", at |-> [k \in DOMAIN out.m |-> OutShape(out.m[k])]]
      [] out.kind = "[]interface" ->
            [shape |-> "list", el |-> [i \in 1..Len(out.l) |-> OutShape(out.l[i])]]
      [] OTHER -> [shape |-> "leaf"]

\* C14: normalisation preserves structure: for a value built from recognised
\* tags the output has the same nesting, a map gives a map with the same key
\* set, a list gives a list of the same length whose i-th element is the
\* normalisation of the i-th input element, and convertItems returns one
\* record per input record, in the same order.
C14_StructurePreserved ==
    result.ran =>
        /\ (arg.fn = "unwrapAttributeValue" /\ Recognized(arg.av)) =>
              /\ OutShape(result.out) = InShape(arg.av)
              /\ arg.av.tag = "M" =>
                    /\ result.out.kind = "map"
                    /\ DOMAIN result.out.m = DOMAIN arg.av.m
              /\ arg.av.tag = "L" =>
                    /\ result.out.kind = "[]interface"
                    /\ Len(result.out.l) = Len(arg.av.l)
                    /\ \A i \in 1..Len(arg.av.l) :
                          result.out.l[i] = unwrapAttributeValue(arg.av.l[i])
        /\ arg.fn = "convertItems" =>
              /\ Len(result.out.elems) = Len(arg.its)
              /\ \A i \in 1..Len(arg.its) :
                    /\ result.out.elems[i].kind = "map"
                    /\ DOMAIN result.out.elems[i].m = DOMAIN arg.its[i]
                    /\ \A k \in DOMAIN arg.its[i] :
                          OutShape(result.out.elems[i].m[k]) = InShape(arg.its[i][k])

C14_Witness ==
    /\ result.ran /\ arg.fn = "unwrapAttributeValue"
    /\ arg.av = L(<<M([k \in {"k2"} |-> N(<<"1", ".", "5", "0">>)]), BOOL(TRUE)>>)
    /\ DOMAIN result.out.l[1].m = {"k2"}
    /\ result.out.l[2] = GoBool(TRUE)

\* C15: for the same table and the same identifier list, every record the
\* batch path (partition key present) returns is also in the result of the
\* scan path (partition key absent), with the same attributes and values.
C15_BatchWithinScan ==
    result.ran =>
        \A i \in 1..Len(result.out.batch.items.elems) :
            \E j \in 1..Len(result.out.scan.items.elems) :
                result.out.scan.items.elems[j] = result.out.batch.items.elems[i]

=============================================================================
